---- MODULE Spec2Model ----
(***************************************************************************)
(* Catalog cross-match and merge of frb/surveys/catalog_utils.py:          *)
(* xmatch_catalogs and xmatch_and_merge_cats, with the astropy table       *)
(* operations they call (hstack, vstack, join, setdiff, filled) and the    *)
(* nearest-neighbour matcher (SkyCoord.match_to_catalog_sky).              *)
(*                                                                         *)
(* A table is [colnames, rows]; a row is [cell, s1, s2] where cell maps a  *)
(* column name to [v, m] (value, mask) and s1, s2 are history fields: the  *)
(* index of the tab1 row and of the tab2 row the row was made from (0 for  *)
(* none).  No operation reads s1 or s2 to decide anything.                 *)
(*                                                                         *)
(* Sky positions are points of a small integer grid and an angular         *)
(* separation is kept as its square, so that it stays an integer.          *)
(***************************************************************************)
EXTENDS Integers, Sequences, FiniteSets, TLC

\* Bounds of the inputs: rows of one catalog, rows of both catalogs together,
\* and the largest tolerance.
MaxRows == 2
MaxTotal == 4
MaxTol == 2

\* the fill value of lines 478 and 493
FILL == -999

\* Positions lie on the line dec = 0 at right ascensions 0, 1, 2.  The other
\* columns of tab1 hold the value 1, those of tab2 hold 2 or 3.
RAs == {0, 1, 2}
Decs == {0}
Vals1 == {1}
Vals2 == {2, 3}
Tols == 0 .. MaxTol

VARIABLES tab1, tab2, tol, table_names, pc, call, status, idx, d2d, match1,
          match2, merged, matcher_calls

vars == <<tab1, tab2, tol, table_names, pc, call, status, idx, d2d, match1,
          match2, merged, matcher_calls>>

----------------------------------------------------------------------------
(* Sequences and tables *)

Range(s) == {s[k] : k \in DOMAIN s}

RECURSIVE LexLess(_, _)
LexLess(a, b) ==
    IF a = <<>> \/ b = <<>> THEN FALSE
    ELSE IF Head(a) < Head(b) THEN TRUE
    ELSE IF Head(a) > Head(b) THEN FALSE
    ELSE LexLess(Tail(a), Tail(b))

\* The elements of S in ascending order of key[x] (a sequence of integers;
\* the keys of distinct elements differ).
RECURSIVE SortByKey(_, _)
SortByKey(S, key) ==
    IF S = {} THEN <<>>
    ELSE LET m == CHOOSE x \in S : \A y \in S \ {x} : LexLess(key[x], key[y])
         IN  <<m>> \o SortByKey(S \ {m}, key)

\* Indices 1..n, ascending, at which the boolean array sel is true.
BoolIndex(sel) == SelectSeq([k \in 1 .. Len(sel) |-> k], LAMBDA k : sel[k])

NRows(t) == Len(t.rows)

Unmasked(x) == [v |-> x, m |-> FALSE]
MaskedCell == [v |-> 0, m |-> TRUE]

EmptyTable == [colnames |-> <<>>, rows |-> <<>>]

\* t[ix] for a sequence ix of row indices
TakeRows(t, ix) ==
    [colnames |-> t.colnames, rows |-> [k \in 1 .. Len(ix) |-> t.rows[ix[k]]]]

\* the values of row r in the columns cols, in that order
RowKey(r, cols) == [k \in 1 .. Len(cols) |-> r.cell[cols[k]].v]

----------------------------------------------------------------------------
(* The spatial matcher *)

SkyCoord(cat, RACol, DecCol) ==
    [i \in 1 .. NRows(cat) |->
        <<cat.rows[i].cell[RACol].v, cat.rows[i].cell[DecCol].v>>]

\* squared separation of two positions
Sep2(p, q) == (p[1] - q[1]) * (p[1] - q[1]) + (p[2] - q[2]) * (p[2] - q[2])

\* match_to_catalog_sky: for every coordinate of c1 the index of a nearest
\* coordinate of c2, whatever the tolerance.  Which of several equally near
\* neighbours is returned is the matcher's choice: every choice is allowed.
match_to_catalog_sky(c1, c2) ==
    {f \in [1 .. Len(c1) -> 1 .. Len(c2)] :
        \A i \in 1 .. Len(c1) : \A j \in 1 .. Len(c2) :
            Sep2(c1[i], c2[f[i]]) <= Sep2(c1[i], c2[j])}

Separations(c1, c2, f) == [i \in 1 .. Len(c1) |-> Sep2(c1[i], c2[f[i]])]

\* d2d < skydist, on squared separations
WithinLeq(d2, skydist) == d2 <= skydist * skydist
Within(d2, skydist) == d2 < skydist * skydist

----------------------------------------------------------------------------
(* xmatch_catalogs *)

\* the second assertion made on cat1 again, as line 197 does with isinstance
xmatch_asserts_cat1_twice(cat1, cat2, RACol1, DecCol1, RACol2, DecCol2) ==
    /\ RACol1 \in Range(cat1.colnames) /\ DecCol1 \in Range(cat1.colnames)
    /\ RACol1 \in Range(cat1.colnames) /\ DecCol1 \in Range(cat1.colnames)

xmatch_asserts(cat1, cat2, RACol1, DecCol1, RACol2, DecCol2) ==
    /\ RACol1 \in Range(cat1.colnames) /\ DecCol1 \in Range(cat1.colnames)
    /\ RACol2 \in Range(cat2.colnames) /\ DecCol2 \in Range(cat2.colnames)

\* the boolean array d2d < skydist
Accepted(dist, skydist) == [i \in 1 .. Len(dist) |-> Within(dist[i], skydist)]

xmatch_match1(cat1, dist, skydist) == TakeRows(cat1, BoolIndex(Accepted(dist, skydist)))

\* cat2[idx], the tolerance forgotten
xmatch_match2_unfiltered(cat2, f, dist, skydist) == TakeRows(cat2, f)

xmatch_match2(cat2, f, dist, skydist) ==
    LET sel == BoolIndex(Accepted(dist, skydist))
    IN  TakeRows(cat2, [k \in 1 .. Len(sel) |-> f[sel[k]]])

----------------------------------------------------------------------------
(* The table operations xmatch_and_merge_cats calls *)

HasDuplicates(cols) == Cardinality(Range(cols)) < Len(cols)

\* Name of column name of table side (1 or 2) in a merge of tables whose
\* other table has the columns othercols: a key column keeps its name, a
\* name both tables have gets the suffix _<table name>.
UniqColName(name, side, othercols, keys, names) ==
    IF name \in Range(keys) THEN name
    ELSE IF name \in Range(othercols) THEN name \o "_" \o names[side]
    ELSE name

OutCols(cols, side, othercols, keys, names) ==
    [k \in 1 .. Len(cols) |-> UniqColName(cols[k], side, othercols, keys, names)]

\* the column of cols that is named out in the merge
SourceCol(out, cols, side, othercols, keys, names) ==
    CHOOSE n \in Range(cols) : UniqColName(n, side, othercols, keys, names) = out

Ghost(a, b) == IF a # 0 THEN a ELSE b

\* hstack([a, b], table_names=names) of two tables of the same length
hstack_cols(a, b, names) ==
    OutCols(a.colnames, 1, b.colnames, <<>>, names)
        \o OutCols(b.colnames, 2, a.colnames, <<>>, names)

hstack(a, b, names) ==
    LET ca == OutCols(a.colnames, 1, b.colnames, <<>>, names)
        cb == OutCols(b.colnames, 2, a.colnames, <<>>, names)
    IN  [colnames |-> ca \o cb,
         rows |-> [k \in 1 .. NRows(a) |->
            [cell |-> [c \in Range(ca) \cup Range(cb) |->
                         IF c \in Range(ca)
                         THEN a.rows[k].cell[SourceCol(c, a.colnames, 1, b.colnames, <<>>, names)]
                         ELSE b.rows[k].cell[SourceCol(c, b.colnames, 2, a.colnames, <<>>, names)]],
             s1 |-> Ghost(a.rows[k].s1, b.rows[k].s1),
             s2 |-> Ghost(a.rows[k].s2, b.rows[k].s2)]]]

remove_columns(t, names) ==
    LET keep == SelectSeq(t.colnames, LAMBDA c : c \notin Range(names))
    IN  [colnames |-> keep,
         rows |-> [k \in 1 .. NRows(t) |->
            [cell |-> [c \in Range(keep) |-> t.rows[k].cell[c]],
             s1 |-> t.rows[k].s1, s2 |-> t.rows[k].s2]]]

\* rename_columns(t, old, new): old[k] becomes new[k]
rename_columns(t, old, new) ==
    LET New(c) == IF c \in Range(old)
                  THEN new[CHOOSE k \in 1 .. Len(old) : old[k] = c] ELSE c
        Old(c) == IF c \in Range(new)
                  THEN old[CHOOSE k \in 1 .. Len(new) : new[k] = c] ELSE c
        cols == [k \in 1 .. Len(t.colnames) |-> New(t.colnames[k])]
    IN  [colnames |-> cols,
         rows |-> [k \in 1 .. NRows(t) |->
            [cell |-> [c \in Range(cols) |-> t.rows[k].cell[Old(c)]],
             s1 |-> t.rows[k].s1, s2 |-> t.rows[k].s2]]]

\* setdiff(t1, t2): the rows of t1 whose values in all of t1's columns are
\* the values of no row of t2, in ascending order of those values.
SameContent(r, q, cols) == RowKey(r, cols) = RowKey(q, cols)

setdiff_index(t1, t2) ==
    LET diff == {i \in 1 .. NRows(t1) :
                    \A j \in 1 .. NRows(t2) :
                        ~SameContent(t1.rows[i], t2.rows[j], t1.colnames)}
    IN  SortByKey(diff, [i \in diff |-> RowKey(t1.rows[i], t1.colnames) \o <<i>>])

setdiff(t1, t2) == TakeRows(t1, setdiff_index(t1, t2))

\* setdiff is a left join of t1 with t2, and the join of astropy refuses an
\* input table without rows (ValueError) in the releases that check for it:
\* with no row in t2 the call either fails so or returns all of t1.
setdiff_outcomes(t2) == IF NRows(t2) = 0 THEN {"ValueError", "ok"} ELSE {"ok"}

\* Row r of a table with the columns from, as a row of a table with the
\* columns cols: the cells it has not are masked.
WidenRow(r, from, cols) ==
    [cell |-> [c \in Range(cols) |->
                 IF c \in Range(from) THEN r.cell[c] ELSE MaskedCell],
     s1 |-> r.s1, s2 |-> r.s2]

\* vstack([a, b]), join_type outer
vstack(a, b) ==
    LET cols == a.colnames \o SelectSeq(b.colnames, LAMBDA c : c \notin Range(a.colnames))
    IN  [colnames |-> cols,
         rows |-> [k \in 1 .. NRows(a) |-> WidenRow(a.rows[k], a.colnames, cols)]
                    \o [k \in 1 .. NRows(b) |-> WidenRow(b.rows[k], b.colnames, cols)]]

\* join(left, right, keys, join_type='outer', table_names=names)
join_cols(left, right, keys, names) ==
    OutCols(left.colnames, 1, right.colnames, keys, names)
        \o OutCols(SelectSeq(right.colnames, LAMBDA c : c \notin Range(keys)),
                   2, left.colnames, keys, names)

join(left, right, keys, names) ==
    LET cl == OutCols(left.colnames, 1, right.colnames, keys, names)
        cr == OutCols(SelectSeq(right.colnames, LAMBDA c : c \notin Range(keys)),
                      2, left.colnames, keys, names)
        L == 1 .. NRows(left)
        R == 1 .. NRows(right)
        Eq(l, r) == RowKey(left.rows[l], keys) = RowKey(right.rows[r], keys)
        pairs == {p \in L \X R : Eq(p[1], p[2])}
                    \cup {<<l, 0>> : l \in {x \in L : \A r \in R : ~Eq(x, r)}}
                    \cup {<<0, r>> : r \in {x \in R : \A l \in L : ~Eq(l, x)}}
        KeyOf(p) == IF p[1] # 0 THEN RowKey(left.rows[p[1]], keys)
                    ELSE RowKey(right.rows[p[2]], keys)
        order == SortByKey(pairs, [p \in pairs |-> KeyOf(p) \o p])
        Cell(p, c) ==
            IF c \in Range(keys) THEN
                IF p[1] # 0 THEN left.rows[p[1]].cell[c] ELSE right.rows[p[2]].cell[c]
            ELSE IF c \in Range(cl) THEN
                IF p[1] # 0
                THEN left.rows[p[1]].cell[SourceCol(c, left.colnames, 1, right.colnames, keys, names)]
                ELSE MaskedCell
            ELSE
                IF p[2] # 0
                THEN right.rows[p[2]].cell[SourceCol(c, right.colnames, 2, left.colnames, keys, names)]
                ELSE MaskedCell
    IN  [colnames |-> cl \o cr,
         rows |-> [k \in 1 .. Len(order) |->
            [cell |-> [c \in Range(cl) \cup Range(cr) |-> Cell(order[k], c)],
             s1 |-> IF order[k][1] # 0 THEN left.rows[order[k][1]].s1 ELSE 0,
             s2 |-> IF order[k][2] # 0 THEN right.rows[order[k][2]].s2 ELSE 0]]]

\* t.filled(fill): every masked cell gets the value fill and is unmasked
filled(t, fill) ==
    [colnames |-> t.colnames,
     rows |-> [k \in 1 .. NRows(t) |->
        [cell |-> [c \in Range(t.colnames) |->
                     IF t.rows[k].cell[c].m THEN Unmasked(fill) ELSE t.rows[k].cell[c]],
         s1 |-> t.rows[k].s1, s2 |-> t.rows[k].s2]]]

----------------------------------------------------------------------------
(* xmatch_and_merge_cats, step by step.  t1, t2 are the catalogs, skydist   *)
(* the tolerance, names the two table names and f the matcher's answer.    *)

\* table_names as passed: None, or a sequence of labels, each a string or not
NoneNames == [none |-> TRUE, labels |-> <<>>]
Str(x) == [isstr |-> TRUE, s |-> x]
NonStr(x) == [isstr |-> FALSE, s |-> x]
Names(labels) == [none |-> FALSE, labels |-> labels]

\* line 447 alone: the length checked, the types not
table_names_asserts_length_only(tn) == tn.none \/ Len(tn.labels) = 2

\* lines 446-448
table_names_asserts(tn) ==
    tn.none \/ (Len(tn.labels) = 2 /\ tn.labels[1].isstr /\ tn.labels[2].isstr)

\* lines 450-451
coord_asserts(t) == {"ra", "dec"} \subseteq Range(t.colnames)

\* the names hstack and join use: theirs by default when None is passed
DefaultNames == <<"1", "2">>
EffectiveNames(tn) ==
    IF tn.none THEN DefaultNames ELSE [k \in 1 .. Len(tn.labels) |-> tn.labels[k].s]

D2D(t1, t2, f) == Separations(SkyCoord(t1, "ra", "dec"), SkyCoord(t2, "ra", "dec"), f)

matched_tab1(t1, t2, skydist, f) == xmatch_match1(t1, D2D(t1, t2, f), skydist)
matched_tab2(t1, t2, skydist, f) == xmatch_match2(t2, f, D2D(t1, t2, f), skydist)

tab1_coord_cols(names) == <<"ra_" \o names[1], "dec_" \o names[1]>>
\* the columns of tab1 named again
tab2_coord_cols_of_tab1(names) == <<"ra_" \o names[1], "dec_" \o names[1]>>
tab2_coord_cols(names) == <<"ra_" \o names[2], "dec_" \o names[2]>>

\* the coordinates of tab2 kept and those of tab1 removed
inner_join_tab2_coords(m1, m2, names) ==
    rename_columns(
        remove_columns(hstack(m1, m2, names), tab1_coord_cols(names)),
        tab2_coord_cols(names), <<"ra", "dec">>)

\* lines 456-466, of the two matched tables
inner_join(m1, m2, names) ==
    rename_columns(
        remove_columns(hstack(m1, m2, names), tab2_coord_cols(names)),
        tab1_coord_cols(names), <<"ra", "dec">>)

\* lines 476-477, of the two tables of unmatched rows
outer_join(nm1, nm2, names) == join(nm1, nm2, <<"ra", "dec">>, names)

\* lines 474-487, of the inner join and the two tables of unmatched rows
stacked(ij, nm1, nm2, names) ==
    IF NRows(nm1) # 0 /\ NRows(nm2) # 0 THEN
        filled(vstack(ij, outer_join(nm1, nm2, names)), FILL)
    ELSE IF NRows(nm1) # 0 /\ NRows(nm2) = 0 THEN
        vstack(ij, nm1)
    ELSE IF NRows(nm1) = 0 /\ NRows(nm2) # 0 THEN
        vstack(ij, nm2)
    ELSE ij

\* lines 488-493
WeirdCols == <<"ra_1", "dec_1", "ra_2", "dec_2">>

cleanup(t) == filled(remove_columns(t, WeirdCols), FILL)

\* lines 453-493: the catalog xmatch_and_merge_cats returns
merge_result(t1, t2, skydist, names, f) ==
    LET m1 == matched_tab1(t1, t2, skydist, f)
        m2 == matched_tab2(t1, t2, skydist, f)
        not_matched_tab1 == setdiff(t1, m1)
        not_matched_tab2 == setdiff(t2, m2)
    IN  cleanup(stacked(inner_join(m1, m2, names), not_matched_tab1, not_matched_tab2, names))

----------------------------------------------------------------------------
(* Inputs *)

ColDom(c, vals) == IF c = "ra" THEN RAs ELSE IF c = "dec" THEN Decs ELSE vals

RowsOver(cols, vals) ==
    {r \in [Range(cols) -> RAs \cup Decs \cup vals] :
        \A c \in Range(cols) : r[c] \in ColDom(c, vals)}

\* the table of side 1 or 2 with the columns cols and the row values rowvals
MkTable(cols, rowvals, side) ==
    [colnames |-> cols,
     rows |-> [k \in 1 .. Len(rowvals) |->
        [cell |-> [c \in Range(cols) |-> Unmasked(rowvals[k][c])],
         s1 |-> IF side = 1 THEN k ELSE 0,
         s2 |-> IF side = 2 THEN k ELSE 0]]]

TablesOver(cols, vals, side) ==
    {MkTable(cols, rowvals, side) :
        rowvals \in UNION {[1 .. n -> RowsOver(cols, vals)] : n \in 1 .. MaxRows}}

Tables(layouts, vals, side) == UNION {TablesOver(cols, vals, side) : cols \in layouts}

Layouts1 == {<<"ra", "dec">>, <<"ra", "dec", "flux">>}
Layouts2 == {<<"ra", "dec">>, <<"ra", "dec", "flux">>, <<"ra", "dec", "z">>}
\* catalogs without a coordinate column
BadLayouts == {<<"dec", "flux">>, <<"ra", "flux">>}

GoodNames == {Names(<<Str("1"), Str("2")>>), Names(<<Str("a"), Str("b")>>)}
BadNames == {NoneNames,
             Names(<<Str("a"), Str("a")>>),
             Names(<<Str("a")>>),
             Names(<<Str("a"), Str("b"), Str("c")>>),
             Names(<<Str("a"), NonStr("5")>>)}

\* RACol1, DecCol1, RACol2, DecCol2 as a caller of xmatch_catalogs names them
CoordArgs == {<<"ra", "dec", "ra", "dec">>,
              <<"ra", "dec", "z", "dec">>,
              <<"flux", "dec", "ra", "dec">>}

NoCall == [op |-> "none", cols |-> <<>>, return_match_idx |-> FALSE]

Start ==
    /\ pc = "ready"
    /\ call = NoCall
    /\ status = "none"
    /\ idx = <<>>
    /\ d2d = <<>>
    /\ match1 = EmptyTable
    /\ match2 = EmptyTable
    /\ merged = EmptyTable
    /\ matcher_calls = 0

\* well-formed catalogs and table names
Init ==
    /\ tab1 \in Tables(Layouts1, Vals1, 1)
    /\ tab2 \in Tables(Layouts2, Vals2, 2)
    /\ NRows(tab1) + NRows(tab2) <= MaxTotal
    /\ tol \in Tols
    /\ table_names \in GoodNames
    /\ Start

\* catalogs for xmatch_catalogs, which takes no table names
InitXmatch ==
    /\ tab1 \in Tables(Layouts1, Vals1, 1)
    /\ tab2 \in Tables({<<"ra", "dec">>, <<"ra", "dec", "z">>}, Vals2, 2)
    /\ NRows(tab1) + NRows(tab2) <= MaxTotal
    /\ tol \in Tols
    /\ table_names = NoneNames
    /\ Start

\* well-formed and ill-formed arguments
InitInputs ==
    /\ tab1 \in Tables({<<"ra", "dec", "flux">>} \cup BadLayouts, Vals1, 1)
    /\ tab2 \in Tables({<<"ra", "dec", "flux">>, <<"ra", "dec", "z">>} \cup BadLayouts, {2}, 2)
    /\ NRows(tab1) + NRows(tab2) <= MaxTotal
    /\ tol \in Tols \ {0}
    /\ table_names \in GoodNames \cup BadNames
    /\ Start

----------------------------------------------------------------------------
(* The operations *)

HasCols(t, cols) == Range(cols) \subseteq Range(t.colnames)

\* xmatch_catalogs(tab1, tab2, tol, RACol1, DecCol1, RACol2, DecCol2,
\*                 return_match_idx)
XmatchCatalogs ==
    /\ pc = "ready"
    /\ \E cols \in CoordArgs, rmi \in BOOLEAN :
        /\ call' = [op |-> "xmatch_catalogs", cols |-> cols, return_match_idx |-> rmi]
        /\ IF ~xmatch_asserts(tab1, tab2, cols[1], cols[2], cols[3], cols[4]) THEN
              /\ status' = "AssertionError"
              /\ UNCHANGED <<idx, d2d, match1, match2, matcher_calls>>
           ELSE IF ~HasCols(tab1, <<cols[1], cols[2]>>) \/ ~HasCols(tab2, <<cols[3], cols[4]>>) THEN
              \* cat1[RACol1] of a column the table has not, lines 201-202
              /\ status' = "KeyError"
              /\ UNCHANGED <<idx, d2d, match1, match2, matcher_calls>>
           ELSE
              LET c1 == SkyCoord(tab1, cols[1], cols[2])
                  c2 == SkyCoord(tab2, cols[3], cols[4])
              IN  \E f \in match_to_catalog_sky(c1, c2) :
                    /\ matcher_calls' = matcher_calls + 1
                    /\ status' = "ok"
                    /\ idx' = IF rmi THEN f ELSE <<>>
                    /\ d2d' = IF rmi THEN Separations(c1, c2, f) ELSE <<>>
                    /\ match1' = IF rmi THEN EmptyTable
                                 ELSE xmatch_match1(tab1, Separations(c1, c2, f), tol)
                    /\ match2' = IF rmi THEN EmptyTable
                                 ELSE xmatch_match2(tab2, f, Separations(c1, c2, f), tol)
    /\ pc' = "done"
    /\ UNCHANGED <<tab1, tab2, tol, table_names, merged>>

\* xmatch_and_merge_cats(tab1, tab2, tol, table_names)
XmatchAndMergeCats ==
    /\ pc = "ready"
    /\ call' = [op |-> "xmatch_and_merge_cats", cols |-> <<"ra", "dec", "ra", "dec">>,
                return_match_idx |-> FALSE]
    /\ IF ~table_names_asserts(table_names) \/ ~coord_asserts(tab1) \/ ~coord_asserts(tab2)
             \/ ~xmatch_asserts(tab1, tab2, "ra", "dec", "ra", "dec") THEN
          /\ status' = "AssertionError"
          /\ UNCHANGED <<idx, d2d, match1, match2, merged, matcher_calls>>
       ELSE IF ~HasCols(tab1, <<"ra", "dec">>) \/ ~HasCols(tab2, <<"ra", "dec">>) THEN
          /\ status' = "KeyError"
          /\ UNCHANGED <<idx, d2d, match1, match2, merged, matcher_calls>>
       ELSE
          \E f \in match_to_catalog_sky(SkyCoord(tab1, "ra", "dec"), SkyCoord(tab2, "ra", "dec")) :
            LET names == EffectiveNames(table_names) IN
            /\ matcher_calls' = matcher_calls + 1
            /\ idx' = f
            /\ d2d' = D2D(tab1, tab2, f)
            /\ match1' = matched_tab1(tab1, tab2, tol, f)
            /\ match2' = matched_tab2(tab1, tab2, tol, f)
            /\ IF HasDuplicates(hstack_cols(tab1, tab2, names)) THEN
                  \* hstack refuses to make two columns of one name, line 457
                  /\ status' = "TableMergeError"
                  /\ UNCHANGED merged
               ELSE IF table_names.none THEN
                  \* 'ra_' + table_names[0], line 461
                  /\ status' = "TypeError"
                  /\ UNCHANGED merged
               ELSE
                  \E outcome \in setdiff_outcomes(matched_tab1(tab1, tab2, tol, f)) :
                    /\ status' = outcome
                    /\ merged' = IF outcome = "ok"
                                  THEN merge_result(tab1, tab2, tol, names, f)
                                  ELSE merged
    /\ pc' = "done"
    /\ UNCHANGED <<tab1, tab2, tol, table_names>>

Next == XmatchCatalogs \/ XmatchAndMergeCats

Spec == Init /\ [][Next]_vars

\* xmatch_and_merge_cats on well-formed arguments
SpecMerge == Init /\ [][XmatchAndMergeCats]_vars

\* xmatch_catalogs on well-formed catalogs
SpecXmatch == InitXmatch /\ [][XmatchCatalogs]_vars

\* both operations on well-formed and ill-formed arguments
SpecInputs == InitInputs /\ [][Next]_vars

----------------------------------------------------------------------------
(* What the claims speak of *)

MergeDone == pc = "done" /\ call.op = "xmatch_and_merge_cats"
MergeReturned == MergeDone /\ status = "ok"

\* the rows of the returned catalog made from row i of tab1, from row j of tab2
RowsFrom1(i) == {k \in 1 .. NRows(merged) : merged.rows[k].s1 = i}
RowsFrom2(j) == {k \in 1 .. NRows(merged) : merged.rows[k].s2 = j}

\* no two rows of t have the same values in all columns
DistinctRows(t) ==
    \A i, j \in 1 .. NRows(t) : i # j => t.rows[i].cell # t.rows[j].cell

\* a positive tolerance and catalogs without repeated rows: the inputs on which
\* the content-based setdiff cannot confuse two rows
PlainInputs == tol > 0 /\ DistinctRows(tab1) /\ DistinctRows(tab2)

\* C1: every row of tab1 and every row of tab2 is represented exactly once in
\* the returned catalog.  The claim as stated, taken on its easiest inputs: a
\* positive tolerance and no repeated rows.
C1_EveryRowOnce ==
    (MergeReturned /\ PlainInputs) =>
        /\ \A i \in 1 .. NRows(tab1) : Cardinality(RowsFrom1(i)) = 1
        /\ \A j \in 1 .. NRows(tab2) : Cardinality(RowsFrom2(j)) = 1

\* C2: the returned catalog has (matched pairs) + (unmatched rows of tab1) +
\* (unmatched rows of tab2) rows, the unmatched rows being those of setdiff, and
\* matched pairs + unmatched rows of a table is that table's length.  The claim
\* as stated, on the same inputs.
C2_RowCount ==
    (MergeReturned /\ PlainInputs) =>
        LET pairs == NRows(match1)
            u1 == NRows(setdiff(tab1, match1))
            u2 == NRows(setdiff(tab2, match2))
        IN  /\ NRows(merged) = pairs + u1 + u2
            /\ pairs + u1 = NRows(tab1)
            /\ pairs + u2 = NRows(tab2)

\* C3: in the returned catalog no row of tab2 is combined with more than one
\* row of tab1 and no row of tab1 with more than one row of tab2.  The claim
\* as stated, on the same inputs.
C3_UniqueMatch ==
    (MergeReturned /\ PlainInputs) =>
        /\ \A j \in 1 .. NRows(tab2) :
              Cardinality({k \in RowsFrom2(j) : merged.rows[k].s1 # 0}) <= 1
        /\ \A i \in 1 .. NRows(tab1) :
              Cardinality({k \in RowsFrom1(i) : merged.rows[k].s2 # 0}) <= 1

\* the table names in force
TheNames == EffectiveNames(table_names)

\* the names the non-coordinate columns of tab1, of tab2 have in a merge
Contributed1 ==
    {UniqColName(c, 1, tab2.colnames, <<"ra", "dec">>, TheNames) :
        c \in Range(tab1.colnames) \ {"ra", "dec"}}
Contributed2 ==
    {UniqColName(c, 2, tab1.colnames, <<"ra", "dec">>, TheNames) :
        c \in Range(tab2.colnames) \ {"ra", "dec"}}

\* C4: the columns of the returned catalog are ra, dec and the other columns of
\* both inputs, a name both inputs have carrying the table names as suffixes,
\* whichever rows matched (the claim as stated)
C4_ColumnSet ==
    MergeReturned =>
        Range(merged.colnames) = {"ra", "dec"} \cup Contributed1 \cup Contributed2

\* C5: the returned catalog has exactly one column ra and exactly one column
\* dec, and no column ra_<table name> or dec_<table name>
C5_OneRaOneDec ==
    MergeReturned =>
        /\ Cardinality({k \in 1 .. Len(merged.colnames) : merged.colnames[k] = "ra"}) = 1
        /\ Cardinality({k \in 1 .. Len(merged.colnames) : merged.colnames[k] = "dec"}) = 1
        /\ \A n \in Range(TheNames) :
              "ra_" \o n \notin Range(merged.colnames)
              /\ "dec_" \o n \notin Range(merged.colnames)

\* C5 witness: a catalog returned under the table names a, b with a merged row,
\* a row of tab1 alone and a row of tab2 alone
C5_Witness ==
    /\ MergeReturned
    /\ TheNames = <<"a", "b">>
    /\ \E k \in 1 .. NRows(merged) : merged.rows[k].s1 # 0 /\ merged.rows[k].s2 # 0
    /\ \E k \in 1 .. NRows(merged) : merged.rows[k].s1 # 0 /\ merged.rows[k].s2 = 0
    /\ \E k \in 1 .. NRows(merged) : merged.rows[k].s1 = 0 /\ merged.rows[k].s2 # 0

\* the rows of tab1 without an accepted match, and the rows of tab2 that are
\* the accepted match of no row of tab1
Unmatched1 == {i \in 1 .. NRows(tab1) : d2d[i] >= tol * tol}
Unmatched2 ==
    {j \in 1 .. NRows(tab2) :
        \A i \in 1 .. NRows(tab1) : i \notin Unmatched1 => idx[i] # j}

\* C10: every unmatched row of tab1 is in the returned catalog with -999 in all
\* columns tab2 contributes, every unmatched row of tab2 with -999 in all
\* columns tab1 contributes, and no cell of the catalog is masked (the claim
\* as stated, for a positive tolerance)
C10_SentinelFill ==
    (MergeReturned /\ tol > 0) =>
        /\ \A i \in Unmatched1 : \E k \in RowsFrom1(i) :
              \A c \in Contributed2 : merged.rows[k].cell[c] = Unmasked(FILL)
        /\ \A j \in Unmatched2 : \E k \in RowsFrom2(j) :
              \A c \in Contributed1 : merged.rows[k].cell[c] = Unmasked(FILL)
        /\ \A k \in 1 .. NRows(merged) : \A c \in Range(merged.colnames) :
              ~merged.rows[k].cell[c].m

\* C10 on catalogs whose tab2 has no repeated rows: there the fill holds
C10_SentinelFillDistinct == DistinctRows(tab2) => C10_SentinelFill

XmatchDone == pc = "done" /\ call.op = "xmatch_catalogs"
\* xmatch_catalogs returned the two matched tables
XmatchReturned == XmatchDone /\ status = "ok" /\ ~call.return_match_idx

\* the coordinates the call read
Coords1 == SkyCoord(tab1, call.cols[1], call.cols[2])
Coords2 == SkyCoord(tab2, call.cols[3], call.cols[4])

\* squared separation of row i of cat1 from row j of cat2, and from its
\* nearest neighbour in cat2
PairSep2(i, j) == Sep2(Coords1[i], Coords2[j])
NearestSep2(i) ==
    CHOOSE d \in {PairSep2(i, j) : j \in 1 .. NRows(tab2)} :
        \A j \in 1 .. NRows(tab2) : d <= PairSep2(i, j)

\* row i of cat1 is in match1
InMatch1(i) == \E k \in 1 .. NRows(match1) : match1.rows[k].s1 = i

\* C6: a row of cat1 is matched if and only if its separation from its nearest
\* neighbour in cat2 is strictly less than skydist
C6_StrictTolerance ==
    XmatchReturned =>
        \A i \in 1 .. NRows(tab1) : InMatch1(i) <=> NearestSep2(i) < tol * tol

\* C6 witness: one row at exactly the tolerance from its nearest neighbour and
\* not matched, another row nearer than the tolerance and matched
C6_Witness ==
    /\ XmatchReturned
    /\ tol > 0
    /\ \E i \in 1 .. NRows(tab1) : NearestSep2(i) = tol * tol /\ ~InMatch1(i)
    /\ \E i \in 1 .. NRows(tab1) : NearestSep2(i) < tol * tol /\ InMatch1(i)

\* C7: match1 and match2 have the same length; match2[k] is a nearest
\* neighbour in cat2 of match1[k], within skydist of it; match1 is exactly the
\* rows of cat1 with an accepted match, in ascending order of their index
C7_Aligned ==
    XmatchReturned =>
        /\ NRows(match1) = NRows(match2)
        /\ match1.colnames = tab1.colnames
        /\ match2.colnames = tab2.colnames
        /\ \A k \in 1 .. NRows(match1) :
              LET i == match1.rows[k].s1
                  j == match2.rows[k].s2
              IN  /\ i \in 1 .. NRows(tab1) /\ match1.rows[k] = tab1.rows[i]
                  /\ j \in 1 .. NRows(tab2) /\ match2.rows[k] = tab2.rows[j]
                  /\ PairSep2(i, j) = NearestSep2(i)
                  /\ PairSep2(i, j) < tol * tol
        /\ \A k, l \in 1 .. NRows(match1) :
              k < l => match1.rows[k].s1 < match1.rows[l].s1
        /\ {match1.rows[k].s1 : k \in 1 .. NRows(match1)}
              = {i \in 1 .. NRows(tab1) : NearestSep2(i) < tol * tol}

\* C7 witness: two matched pairs, one of them of rows with different indices
C7_Witness ==
    /\ XmatchReturned
    /\ NRows(match1) = 2
    /\ \E k \in 1 .. 2 : match1.rows[k].s1 # match2.rows[k].s2

\* table_names is a pair of two distinct string labels
PairOfDistinctStrings(tn) ==
    /\ ~tn.none
    /\ Len(tn.labels) = 2
    /\ tn.labels[1].isstr /\ tn.labels[2].isstr
    /\ tn.labels[1].s # tn.labels[2].s

\* table_names has the wrong length or holds a label that is no string
WrongLengthOrType(tn) ==
    /\ ~tn.none
    /\ \/ Len(tn.labels) # 2
       \/ \E k \in 1 .. Len(tn.labels) : ~tn.labels[k].isstr

Failed == status \notin {"none", "ok"}

\* C8 as stated: whenever table_names is not a pair of two distinct string
\* labels, xmatch_and_merge_cats fails before any matching and returns no
\* catalog
C8_RejectedBeforeMatching ==
    (MergeDone /\ ~PairOfDistinctStrings(table_names)) =>
        Failed /\ matcher_calls = 0 /\ merged = EmptyTable

\* C8 as amended: whenever table_names is not a pair of two distinct string
\* labels, xmatch_and_merge_cats fails and returns no catalog; it fails in its
\* own assertions, before any matching, when table_names has the wrong length
\* or holds a non-string
C8_Rejected ==
    (MergeDone /\ ~PairOfDistinctStrings(table_names)) =>
        /\ Failed
        /\ merged = EmptyTable
        /\ WrongLengthOrType(table_names) =>
              status = "AssertionError" /\ matcher_calls = 0

\* C8 witness: catalogs with ra and dec, a non-string label, rejected before
\* matching
C8_Witness ==
    /\ MergeDone
    /\ HasCols(tab1, <<"ra", "dec">>) /\ HasCols(tab2, <<"ra", "dec">>)
    /\ ~table_names.none /\ Len(table_names.labels) = 2
    /\ ~table_names.labels[2].isstr
    /\ status = "AssertionError"
    /\ matcher_calls = 0

\* a coordinate column the call needs is missing from a catalog
MissingColumn ==
    \/ MergeDone /\ (~HasCols(tab1, <<"ra", "dec">>) \/ ~HasCols(tab2, <<"ra", "dec">>))
    \/ XmatchDone /\ (~HasCols(tab1, <<call.cols[1], call.cols[2]>>)
                        \/ ~HasCols(tab2, <<call.cols[3], call.cols[4]>>))

\* C9: when a required coordinate column is missing from either catalog the
\* operation fails in its assertions, the matcher is not invoked and nothing
\* is returned
C9_MissingColumnRejected ==
    MissingColumn =>
        /\ status = "AssertionError"
        /\ matcher_calls = 0
        /\ idx = <<>> /\ d2d = <<>>
        /\ match1 = EmptyTable /\ match2 = EmptyTable /\ merged = EmptyTable

\* C9 witness: xmatch_catalogs called with a column name cat2 has not, on a
\* cat1 that has its columns
C9_Witness ==
    /\ XmatchDone
    /\ HasCols(tab1, <<call.cols[1], call.cols[2]>>)
    /\ ~HasCols(tab2, <<call.cols[3], call.cols[4]>>)
    /\ status = "AssertionError"

\* the non-coordinate column names both catalogs have
Colliding == (Range(tab1.colnames) \cap Range(tab2.colnames)) \ {"ra", "dec"}

\* C11: for every accepted match there is a merged row with the ra and dec of
\* the tab1 row, and in every merged row each colliding non-coordinate column
\* appears under both suffixed names, holding the tab1 value and the tab2 value
C11_MergedRow ==
    (MergeReturned /\ tol > 0) =>
        /\ \A i \in 1 .. NRows(tab1) \ Unmatched1 :
              \E k \in RowsFrom1(i) : merged.rows[k].s2 = idx[i]
        /\ \A k \in 1 .. NRows(merged) :
              LET i == merged.rows[k].s1
                  j == merged.rows[k].s2
              IN  (i # 0 /\ j # 0) =>
                    /\ merged.rows[k].cell["ra"] = tab1.rows[i].cell["ra"]
                    /\ merged.rows[k].cell["dec"] = tab1.rows[i].cell["dec"]
                    /\ \A c \in Colliding :
                          /\ c \o "_" \o TheNames[1] \in Range(merged.colnames)
                          /\ c \o "_" \o TheNames[2] \in Range(merged.colnames)
                          /\ merged.rows[k].cell[c \o "_" \o TheNames[1]] = tab1.rows[i].cell[c]
                          /\ merged.rows[k].cell[c \o "_" \o TheNames[2]] = tab2.rows[j].cell[c]

\* C11 witness: a merged row of a tab1 row and a tab2 row at different right
\* ascensions, both catalogs having the column flux
C11_Witness ==
    /\ MergeReturned
    /\ tol > 0
    /\ "flux" \in Colliding
    /\ \E k \in 1 .. NRows(merged) :
          /\ merged.rows[k].s1 # 0 /\ merged.rows[k].s2 # 0
          /\ tab1.rows[merged.rows[k].s1].cell["ra"] # tab2.rows[merged.rows[k].s2].cell["ra"]

====
